---- MODULE Spec2Model ----
(***************************************************************************)
(* Attendance tracker (src/app/page.tsx): the HomePage component's state,  *)
(* its two fetches, the chart-data processing effect, the bar-click and    *)
(* student-select handlers and the two memoized drill-down views.          *)
(*                                                                         *)
(* JavaScript strings are TLA+ strings; a character is a one-character     *)
(* string obtained with SubSeq.  A JavaScript number that is an IEEE-754   *)
(* double is modelled by its exact value m * 2^e, the significand m kept   *)
(* as a sequence of bits (most significant first).                         *)
(***************************************************************************)
EXTENDS Integers, Sequences, FiniteSets, TLC

\* ------------------------------------------------------------------ bounds

\* Longest log sequence the data source delivers.
MaxLogs == 2
\* Largest class size of the percentage specification (SpecPct).
MaxClassSize == 80

\* ------------------------------------------------------------- IEEE double

\* Significand width of a double.
Precision == 53

Zeros(n) == [i \in 1..n |-> 0]

\* A bit sequence without its leading zeros.
StripZeros(b) ==
    IF \A i \in 1..Len(b) : b[i] = 0 THEN <<>>
    ELSE LET first == CHOOSE i \in 1..Len(b) :
                          b[i] = 1 /\ \A j \in 1..(i - 1) : b[j] = 0
         IN  SubSeq(b, first, Len(b))

RECURSIVE IntBits(_)
\* The bits of a natural number, most significant first; <<>> for 0.
IntBits(n) == IF n = 0 THEN <<>> ELSE Append(IntBits(n \div 2), n % 2)

RECURSIVE BitsToInt(_)
BitsToInt(b) ==
    IF b = <<>> THEN 0
    ELSE 2 * BitsToInt(SubSeq(b, 1, Len(b) - 1)) + b[Len(b)]

RECURSIVE MulAddRange(_, _, _, _, _)
\* Positions lo..hi of a * k + (carry into position hi), and the carry out of
\* position lo.  The range is halved so that the recursion stays shallow, and
\* the lower half is evaluated (its carry tested) before the upper half starts.
MulAddRange(a, k, lo, hi, cin) ==
    IF lo = hi
    THEN LET v == a[lo] * k + cin
         IN  [s |-> <<v % 2>>, c |-> v \div 2]
    ELSE LET mid == (lo + hi) \div 2
             right == MulAddRange(a, k, mid + 1, hi, cin)
         IN  IF right.c < 0 THEN right
             ELSE LET left == MulAddRange(a, k, lo, mid, right.c)
                  IN  [s |-> left.s \o right.s, c |-> left.c]

\* The bits of a * k + c for a bit sequence a and naturals k, c.
MulAdd(a, k, c) ==
    IF a = <<>> THEN IntBits(c)
    ELSE LET r == MulAddRange(a, k, 1, Len(a), c)
         IN  StripZeros(IntBits(r.c) \o r.s)

\* Round the exact value bits * 2^e (sticky: a non-zero part below the last bit)
\* to the nearest double, ties to even.
RoundToDouble(bits, e, sticky) ==
    LET b == StripZeros(bits)
    IN  IF Len(b) <= Precision
        THEN [m |-> b, e |-> e]
        ELSE LET drop == Len(b) - Precision
                 keep == SubSeq(b, 1, Precision)
                 rest == SubSeq(b, Precision + 1, Len(b))
                 guard == rest[1]
                 below == sticky \/ \E i \in 2..Len(rest) : rest[i] = 1
                 up == guard = 1 /\ (below \/ keep[Precision] = 1)
                 r == IF up THEN MulAdd(keep, 1, 1) ELSE keep
             IN  IF Len(r) > Precision
                 THEN [m |-> SubSeq(r, 1, Precision), e |-> e + drop + 1]
                 ELSE [m |-> r, e |-> e + drop]

RECURSIVE Pow2Mod(_, _)
\* 2^k mod d, by repeated squaring.
Pow2Mod(k, d) ==
    IF k = 0 THEN 1 % d
    ELSE LET h == Pow2Mod(k \div 2, d)
         IN  (((h * h) % d) * (IF k % 2 = 1 THEN 2 ELSE 1)) % d

\* The remainder of binary long division of r / d (r < d) after i bits.
DivRem(r, d, i) == (r * Pow2Mod(i, d)) % d

\* Bit i >= 1 after the binary point of r / d (r < d).
DivBit(r, d, i) == (2 * DivRem(r, d, i - 1)) \div d

\* The double p / d for naturals p and d > 0 (JavaScript's `/`): the quotient's
\* first Precision + 1 significant bits and whether anything non-zero follows,
\* rounded to nearest, ties to even.
DivDouble(p, d) ==
    IF p = 0 THEN [m |-> <<>>, e |-> 0]
    ELSE LET ip == IntBits(p \div d)
             r == p % d
             \* frac bits before the first significant one (r / d >= 2^-lead-1)
             lead == IF ip # <<>> \/ r = 0 THEN 0
                     ELSE (CHOOSE i \in 1..(2 * d) : DivBit(r, d, i) = 1
                               /\ \A j \in 1..(i - 1) : DivBit(r, d, j) = 0) - 1
             n == IF r = 0 THEN 0 ELSE lead + Precision + 1 - Len(ip)
         IN  RoundToDouble(ip \o [i \in 1..n |-> DivBit(r, d, i)],
                           0 - n, DivRem(r, d, n) # 0)

\* The double x * 100 (JavaScript's `*`).
Mul100(x) ==
    IF x.m = <<>> THEN x ELSE RoundToDouble(MulAdd(x.m, 100, 0), x.e, FALSE)

\* Number.prototype.toFixed(1), as the integer n it picks: n / 10 - x is as
\* close to zero as possible and, of two such n, the larger:
\* n = floor(x * 10 + 1/2), on the exact value of the double.
ToFixedTenths(x) ==
    IF x.m = <<>> THEN 0
    ELSE LET ten == MulAdd(x.m, 10, 0)
         IN  IF x.e >= 0 THEN BitsToInt(ten \o Zeros(x.e))
             ELSE LET k == 0 - x.e
                      t == IF Len(ten) > k THEN ten
                           ELSE Zeros(k + 1 - Len(ten)) \o ten
                      \* the integer part, and the first bit after the point
                      whole == SubSeq(t, 1, Len(t) - k)
                      half == t[Len(t) - k + 1]
                  IN  BitsToInt(whole) + half

\* ------------------------------------------------------------------ strings

Digits == "0123456789"

CharAt(s, i) == SubSeq(s, i, i)

IsDigit(c) == \E d \in 1..10 : CharAt(Digits, d) = c

DigitValue(c) == (CHOOSE d \in 1..10 : CharAt(Digits, d) = c) - 1

\* String.prototype.substring(start), start >= 0.
Substring(s, start) == IF start >= Len(s) THEN "" ELSE SubSeq(s, start + 1, Len(s))

RECURSIVE NumberToString(_)
\* Number.prototype.toString() of a natural number, and its use in a template
\* literal.
NumberToString(n) ==
    IF n < 10 THEN CharAt(Digits, n + 1)
    ELSE NumberToString(n \div 10) \o CharAt(Digits, (n % 10) + 1)

\* What parseInt returns for a string with no leading digit.
NaN == -1

RECURSIVE ParseDigits(_, _, _)
ParseDigits(s, i, acc) ==
    IF i > Len(s) \/ ~IsDigit(CharAt(s, i)) THEN acc
    ELSE ParseDigits(s, i + 1, 10 * acc + DigitValue(CharAt(s, i)))

\* parseInt(s, 10) on a string without sign or leading blanks: the value of
\* its longest prefix of decimal digits.
ParseInt(s) ==
    IF s = "" \/ ~IsDigit(CharAt(s, 1)) THEN NaN ELSE ParseDigits(s, 1, 0)

\* Collation weight of a character of a "MM-DD" string: punctuation sorts
\* before the digits, the digits by value.
CollationWeight(c) == IF IsDigit(c) THEN 1 + DigitValue(c) ELSE 0

RECURSIVE CompareFrom(_, _, _)
CompareFrom(a, b, i) ==
    IF i > Len(a) /\ i > Len(b) THEN 0
    ELSE IF i > Len(a) THEN -1
    ELSE IF i > Len(b) THEN 1
    ELSE LET wa == CollationWeight(CharAt(a, i))
             wb == CollationWeight(CharAt(b, i))
         IN  IF wa < wb THEN -1
             ELSE IF wa > wb THEN 1
             ELSE CompareFrom(a, b, i + 1)

\* String.prototype.localeCompare: negative, zero or positive.
LocaleCompare(a, b) == CompareFrom(a, b, 1)

\* ------------------------------------------------------------- percentages

\* (present / total) * 100 as the code computes it, in doubles.
PercentageOf(present, total) ==
    IF total > 0 THEN Mul100(DivDouble(present, total)) ELSE [m |-> <<>>, e |-> 0]

\* percentage.toFixed(1): the decimal string with one digit after the point.
ToFixed1(x) ==
    LET n == ToFixedTenths(x)
    IN  NumberToString(n \div 10) \o "." \o NumberToString(n % 10)

RECURSIVE IndexOfPoint(_, _)
IndexOfPoint(s, i) ==
    IF i > Len(s) \/ CharAt(s, i) = "." THEN i ELSE IndexOfPoint(s, i + 1)

\* parseFloat of a decimal string "d...d.d".  The double it returns is the one
\* nearest to that decimal and prints back as it, so the number is kept as its
\* count of tenths: 750 is 75.0.
ParseFloat(s) ==
    LET dot == IndexOfPoint(s, 1)
    IN  10 * ParseDigits(s, 1, 0) + ParseDigits(s, dot + 1, 0)

\* parseFloat(percentage.toFixed(1)) for present ids out of total students.
RoundedPercentage(present, total) ==
    ParseFloat(ToFixed1(PercentageOf(present, total)))

\* RoundedPercentage, computed once for every count the model meets.
PercentageTable ==
    [total \in 0..MaxClassSize |->
        [present \in 0..MaxClassSize |-> RoundedPercentage(present, total)]]

\* attendancePercentage of a chart point.
AttendancePercentage(present, total) == PercentageTable[total][present]

\* -------------------------------------------------------------- data source

\* null, for a state that holds a string or null.
Null == "null"

\* The students the roster endpoint knows, and the dates of the log endpoint.
Students == {[id |-> 1, name |-> "Ann"], [id |-> 12, name |-> "Bob"]}
StudentIds == {s.id : s \in Students}
Dates == {"2025-05-01", "2025-05-02"}

BoundedSeq(S, n) == UNION {[1..k -> S] : k \in 0..n}

\* A roster lists a student at most once (ids are the endpoint's keys), in any
\* order; a student may be missing from it.
Rosters ==
    {r \in BoundedSeq(Students, Cardinality(Students)) :
        \A i, j \in 1..Len(r) : r[i].id = r[j].id => i = j}

\* A log entry's present list names at most as many ids as there are students;
\* it may repeat an id and may name a student who is not on the roster.  Two
\* entries may carry the same date.
PresentLists == BoundedSeq(StudentIds, Cardinality(StudentIds))
LogEntries == [date : Dates, present : PresentLists]
LogSequences == BoundedSeq(LogEntries, MaxLogs)

\* -------------------------------------------------------------------- state

VARIABLES
    allStudents,                    \* Student[]
    rawAttendance,                  \* AttendanceRawData[]
    processedChartData,             \* ProcessedChartDataPoint[]
    loadingStudents,
    loadingAttendance,
    error,                          \* string | null
    selectedBarDate,                \* string | null
    selectedStudentId,              \* string, "" for no selection
    studentsFetch,                  \* fetchStudents: "pending", "ok", "failed"
    attendanceFetch,                \* fetchRawAttendance, likewise
    effectPending,                  \* the processing effect is scheduled
    presentStudentsOnSelectedDate,  \* memoized value, as of the last render
    studentSpecificAttendanceData   \* memoized value, as of the last render

stores == <<allStudents, rawAttendance>>
fetches == <<loadingStudents, loadingAttendance, error, studentsFetch, attendanceFetch>>
selection == <<selectedBarDate, selectedStudentId>>
memos == <<presentStudentsOnSelectedDate, studentSpecificAttendanceData>>
vars == <<stores, processedChartData, fetches, selection, effectPending, memos>>

\* ------------------------------------------------------ derived computations

\* Array.prototype.find: the first element that satisfies the test; here its
\* index, 0 when there is none.
FindLog(logs, date) ==
    IF \E i \in 1..Len(logs) : logs[i].date = date
    THEN CHOOSE i \in 1..Len(logs) :
            logs[i].date = date /\ \A j \in 1..(i - 1) : logs[j].date # date
    ELSE 0

FindStudent(students, id) ==
    IF \E i \in 1..Len(students) : students[i].id = id
    THEN CHOOSE i \in 1..Len(students) :
            students[i].id = id /\ \A j \in 1..(i - 1) : students[j].id # id
    ELSE 0

RECURSIVE InsertSorted(_, _)
\* Puts r after every record of the sorted sequence that does not compare
\* greater (Array.prototype.sort is stable).
InsertSorted(sorted, r) ==
    IF sorted = <<>> THEN <<r>>
    ELSE IF LocaleCompare(sorted[Len(sorted)].date, r.date) <= 0
         THEN Append(sorted, r)
         ELSE Append(InsertSorted(SubSeq(sorted, 1, Len(sorted) - 1), r),
                     sorted[Len(sorted)])

\* A rendering of the sort that leaves the records in the order of the logs.
SortByDateOmitted(records) == records

RECURSIVE SortByDate(_)
\* .sort((a, b) => a.date.localeCompare(b.date))
SortByDate(records) ==
    IF records = <<>> THEN <<>>
    ELSE InsertSorted(SortByDate(SubSeq(records, 1, Len(records) - 1)),
                      records[Len(records)])

\* One chart point of the processing effect's map callback.
ChartPoint(log, totalStudents) ==
    [date |-> Substring(log.date, 5),
     originalDate |-> log.date,
     attendancePercentage |-> AttendancePercentage(Len(log.present), totalStudents),
     presentStudentIds |-> log.present]

\* An aggregation that puts the logs in date order first.
ChartDataSortedByDate(students, logs) ==
    LET sorted == SortByDate(logs)
    IN  [i \in 1..Len(sorted) |-> ChartPoint(sorted[i], Len(students))]

\* rawAttendance.map(...) of the processing effect.
ChartData(students, logs) ==
    [i \in 1..Len(logs) |-> ChartPoint(logs[i], Len(students))]

\* The name shown for a present id.
PresentName(students, id) ==
    LET i == FindStudent(students, id)
    IN  IF i # 0 THEN students[i].name ELSE "ID: " \o NumberToString(id)

\* A day view that lists the roster's students only: an id without a student
\* is left out.
PresentStudentsDropUnknown(date, logs, students) ==
    IF date = Null \/ date = "" \/ Len(students) = 0 THEN <<>>
    ELSE LET i == FindLog(logs, date)
         IN  IF i = 0 THEN <<>>
             ELSE LET known == SelectSeq(logs[i].present,
                                         LAMBDA id : FindStudent(students, id) # 0)
                  IN  [k \in 1..Len(known) |-> PresentName(students, known[k])]

\* A day view without the test for an empty roster.
PresentStudentsNoRosterTest(date, logs, students) ==
    IF date = Null \/ date = "" THEN <<>>
    ELSE LET i == FindLog(logs, date)
         IN  IF i = 0 THEN <<>>
             ELSE [k \in 1..Len(logs[i].present) |->
                      PresentName(students, logs[i].present[k])]

\* useMemo: presentStudentsOnSelectedDate.
PresentStudents(date, logs, students) ==
    IF date = Null \/ date = "" \/ Len(students) = 0 THEN <<>>
    ELSE LET i == FindLog(logs, date)
         IN  IF i = 0 THEN <<>>
             ELSE [k \in 1..Len(logs[i].present) |->
                      PresentName(students, logs[i].present[k])]

\* One record of the student view before sorting.
AttendanceRecord(log, studentIdNum) ==
    [date |-> Substring(log.date, 5),
     status |-> IF \E k \in 1..Len(log.present) : log.present[k] = studentIdNum
                THEN "Present" ELSE "Absent"]

\* A student view that looks the selected string up among the numeric ids
\* without parseInt: no id equals it.
StudentAttendanceNoParse(studentId, logs) ==
    IF studentId = "" \/ Len(logs) = 0 THEN <<>>
    ELSE SortByDate([i \in 1..Len(logs) |-> AttendanceRecord(logs[i], NaN)])

\* useMemo: studentSpecificAttendanceData.
StudentAttendance(studentId, logs) ==
    IF studentId = "" \/ Len(logs) = 0 THEN <<>>
    ELSE LET studentIdNum == ParseInt(studentId)
         IN  SortByDate([i \in 1..Len(logs) |->
                            AttendanceRecord(logs[i], studentIdNum)])

\* Every step ends with a render; useMemo recomputes a memoized value when one
\* of its dependencies changed and returns the kept value otherwise.
Render ==
    /\ presentStudentsOnSelectedDate' =
          IF <<selectedBarDate', rawAttendance', allStudents'>>
                = <<selectedBarDate, rawAttendance, allStudents>>
          THEN presentStudentsOnSelectedDate
          ELSE PresentStudents(selectedBarDate', rawAttendance', allStudents')
    /\ studentSpecificAttendanceData' =
          IF <<selectedStudentId', rawAttendance'>> = <<selectedStudentId, rawAttendance>>
          THEN studentSpecificAttendanceData
          ELSE StudentAttendance(selectedStudentId', rawAttendance')

\* A component that tests the error before the loading flags.
ViewErrorFirst ==
    IF error # Null THEN "error"
    ELSE IF loadingStudents \/ loadingAttendance THEN "loading"
    ELSE "main"

\* What the component returns: the loading text, the error text, or the page.
View ==
    IF loadingStudents \/ loadingAttendance THEN "loading"
    ELSE IF error # Null THEN "error"
    ELSE "main"

\* The bar chart is part of the page only when there is chart data.
ChartShown == View = "main" /\ Len(processedChartData) > 0

\* Otherwise the page says "No attendance data available." in its place.
NoDataShown == View = "main" /\ Len(processedChartData) = 0

\* The two drill-down sections are part of the page.
DrillDownsShown == View = "main"

\* ------------------------------------------------------------------ actions

\* The state of the mounted component: both fetches issued, nothing loaded,
\* the processing effect of the first render still to run.
Init ==
    /\ allStudents = <<>>
    /\ rawAttendance = <<>>
    /\ processedChartData = <<>>
    /\ loadingStudents = TRUE
    /\ loadingAttendance = TRUE
    /\ error = Null
    /\ selectedBarDate = Null
    /\ selectedStudentId = ""
    /\ studentsFetch = "pending"
    /\ attendanceFetch = "pending"
    /\ effectPending = TRUE
    /\ presentStudentsOnSelectedDate = <<>>
    /\ studentSpecificAttendanceData = <<>>

\* The messages the two catch blocks pass to setError.
StudentsFetchError == "Failed to fetch students."
AttendanceFetchError == "Failed to fetch attendance logs."

\* A roster continuation that also chooses the first student of the roster.
FetchStudentsOkSelectsFirst(studentData) ==
    /\ studentsFetch = "pending"
    /\ ~effectPending
    /\ allStudents' = studentData
    /\ loadingStudents' = FALSE
    /\ studentsFetch' = "ok"
    /\ effectPending' = TRUE
    /\ selectedStudentId' =
          IF Len(studentData) > 0 THEN NumberToString(studentData[1].id)
          ELSE selectedStudentId
    /\ UNCHANGED <<rawAttendance, processedChartData, loadingAttendance, error,
                   attendanceFetch, selectedBarDate>>
    /\ Render

\* A roster continuation after which the processing effect is not run again
\* (allStudents missing from the effect's dependencies).
FetchStudentsOkNoEffect(studentData) ==
    /\ studentsFetch = "pending"
    /\ ~effectPending
    /\ allStudents' = studentData
    /\ loadingStudents' = FALSE
    /\ studentsFetch' = "ok"
    /\ UNCHANGED <<rawAttendance, processedChartData, loadingAttendance, error,
                   attendanceFetch, selection, effectPending>>
    /\ Render

\* fetchStudents resolves with a roster: setAllStudents, then the finally block.
FetchStudentsOk(studentData) ==
    /\ studentsFetch = "pending"
    /\ ~effectPending
    /\ allStudents' = studentData
    /\ loadingStudents' = FALSE
    /\ studentsFetch' = "ok"
    /\ effectPending' = TRUE
    /\ UNCHANGED <<rawAttendance, processedChartData, loadingAttendance, error,
                   attendanceFetch, selection>>
    /\ Render

\* fetchStudents fails (network error or a non-ok status): the catch block,
\* then the finally block.
FetchStudentsFail ==
    /\ studentsFetch = "pending"
    /\ ~effectPending
    /\ error' = StudentsFetchError
    /\ loadingStudents' = FALSE
    /\ studentsFetch' = "failed"
    /\ UNCHANGED <<stores, processedChartData, loadingAttendance,
                   attendanceFetch, selection, effectPending>>
    /\ Render

\* A logs continuation that clears an error set earlier.
FetchAttendanceOkClearsError(attendanceData) ==
    /\ attendanceFetch = "pending"
    /\ ~effectPending
    /\ rawAttendance' = attendanceData
    /\ loadingAttendance' = FALSE
    /\ attendanceFetch' = "ok"
    /\ effectPending' = TRUE
    /\ error' = Null
    /\ UNCHANGED <<allStudents, processedChartData, loadingStudents,
                   studentsFetch, selection>>
    /\ Render

\* fetchRawAttendance resolves with the logs: setRawAttendance, then the
\* finally block.
FetchAttendanceOk(attendanceData) ==
    /\ attendanceFetch = "pending"
    /\ ~effectPending
    /\ rawAttendance' = attendanceData
    /\ loadingAttendance' = FALSE
    /\ attendanceFetch' = "ok"
    /\ effectPending' = TRUE
    /\ UNCHANGED <<allStudents, processedChartData, loadingStudents, error,
                   studentsFetch, selection>>
    /\ Render

FetchAttendanceFail ==
    /\ attendanceFetch = "pending"
    /\ ~effectPending
    /\ error' = AttendanceFetchError
    /\ loadingAttendance' = FALSE
    /\ attendanceFetch' = "failed"
    /\ UNCHANGED <<stores, processedChartData, loadingStudents,
                   studentsFetch, selection, effectPending>>
    /\ Render

\* A processing effect without the test that both stores are non-empty.
ProcessEffectUnguarded ==
    /\ effectPending
    /\ effectPending' = FALSE
    /\ processedChartData' = ChartData(allStudents, rawAttendance)
    /\ UNCHANGED <<stores, fetches, selection>>
    /\ Render

\* A processing effect that only tests the logs.
ProcessEffectLogsOnly ==
    /\ effectPending
    /\ effectPending' = FALSE
    /\ processedChartData' =
          IF Len(rawAttendance) > 0
          THEN ChartData(allStudents, rawAttendance)
          ELSE processedChartData
    /\ UNCHANGED <<stores, fetches, selection>>
    /\ Render

\* The processing effect: runs after the first render and after every render
\* in which allStudents or rawAttendance changed, before any later update.
ProcessEffect ==
    /\ effectPending
    /\ effectPending' = FALSE
    /\ processedChartData' =
          IF Len(allStudents) > 0 /\ Len(rawAttendance) > 0
          THEN ChartData(allStudents, rawAttendance)
          ELSE processedChartData
    /\ UNCHANGED <<stores, fetches, selection>>
    /\ Render

\* What handleBarClick passes to setSelectedBarDate, Null when it sets nothing.
\* activePayload is data.activePayload, <<>> when data carries none; index is
\* zero-based.
ClickedDate(activePayload, index) ==
    IF Len(activePayload) > 0 THEN activePayload[1].originalDate
    ELSE IF index + 1 \in 1..Len(processedChartData)
         THEN processedChartData[index + 1].originalDate
         ELSE Null

\* A click handler that also resets the student choice.
HandleBarClickResetsStudent(activePayload, index) ==
    /\ ChartShown
    /\ ~effectPending
    /\ selectedBarDate' =
          IF ClickedDate(activePayload, index) # Null
          THEN ClickedDate(activePayload, index)
          ELSE selectedBarDate
    /\ selectedStudentId' = ""
    /\ UNCHANGED <<stores, processedChartData, fetches, effectPending>>
    /\ Render

\* A click handler that deselects the date when its bar is clicked again.
HandleBarClickToggles(activePayload, index) ==
    /\ ChartShown
    /\ ~effectPending
    /\ selectedBarDate' =
          IF ClickedDate(activePayload, index) = Null THEN selectedBarDate
          ELSE IF ClickedDate(activePayload, index) = selectedBarDate THEN Null
          ELSE ClickedDate(activePayload, index)
    /\ UNCHANGED <<stores, processedChartData, fetches, selectedStudentId,
                   effectPending>>
    /\ Render

\* A click handler that deselects the date when the click hits no bar.
HandleBarClickClearsOnMiss(activePayload, index) ==
    /\ ChartShown
    /\ ~effectPending
    /\ selectedBarDate' = ClickedDate(activePayload, index)
    /\ UNCHANGED <<stores, processedChartData, fetches, selectedStudentId,
                   effectPending>>
    /\ Render

\* handleBarClick(data, index), the chart's onClick.
HandleBarClick(activePayload, index) ==
    /\ ChartShown
    /\ ~effectPending
    /\ selectedBarDate' =
          IF ClickedDate(activePayload, index) # Null
          THEN ClickedDate(activePayload, index)
          ELSE selectedBarDate
    /\ UNCHANGED <<stores, processedChartData, fetches, selectedStudentId,
                   effectPending>>
    /\ Render

\* The values the student <select> offers once the page is shown: the empty
\* choice and every student.
StudentOptions ==
    IF View = "main"
    THEN {""} \cup {NumberToString(allStudents[i].id) : i \in 1..Len(allStudents)}
    ELSE {}

\* onChange of the student <select>: setSelectedStudentId(e.target.value).
SelectStudent(value) ==
    /\ View = "main"
    /\ ~effectPending
    /\ selectedStudentId' = value
    /\ UNCHANGED <<stores, processedChartData, fetches, selectedBarDate,
                   effectPending>>
    /\ Render

\* The active payloads a click on the rendered chart can carry: one point of
\* the chart, or none.
ClickPayloads ==
    IF ChartShown
    THEN {<<>>} \cup {<<processedChartData[i]>> : i \in 1..Len(processedChartData)}
    ELSE {}

\* The bodies an in-flight request can still be answered with.
StudentResponses == IF studentsFetch = "pending" THEN Rosters ELSE {}
AttendanceResponses == IF attendanceFetch = "pending" THEN LogSequences ELSE {}

Next ==
    \/ \E studentData \in StudentResponses : FetchStudentsOk(studentData)
    \/ FetchStudentsFail
    \/ \E attendanceData \in AttendanceResponses : FetchAttendanceOk(attendanceData)
    \/ FetchAttendanceFail
    \/ ProcessEffect
    \/ \E activePayload \in ClickPayloads, index \in 0..MaxLogs :
            HandleBarClick(activePayload, index)
    \/ \E value \in StudentOptions : SelectStudent(value)

Spec == Init /\ [][Next]_vars

\* Either continuation of a fetch: the request is answered or fails.
StudentsFetchCompletes ==
    \/ \E studentData \in StudentResponses : FetchStudentsOk(studentData)
    \/ FetchStudentsFail

AttendanceFetchCompletes ==
    \/ \E attendanceData \in AttendanceResponses : FetchAttendanceOk(attendanceData)
    \/ FetchAttendanceFail

\* The component with its scheduling: a scheduled effect is run, and a request
\* in flight is eventually answered or fails.
SpecLive ==
    /\ Spec
    /\ WF_vars(ProcessEffect)
    /\ WF_vars(StudentsFetchCompletes)
    /\ WF_vars(AttendanceFetchCompletes)

\* ------------------------------------------- the percentage, class by class

\* A class of r students with ids 1..r, and one log entry that names the first
\* p of them: the state in which both fetches have just delivered them.
InitPct ==
    /\ \E r \in 1..MaxClassSize, p \in 0..MaxClassSize :
          /\ p <= r
          /\ allStudents = [i \in 1..r |-> [id |-> i, name |-> "S" \o NumberToString(i)]]
          /\ rawAttendance = <<[date |-> "2025-05-01", present |-> [i \in 1..p |-> i]]>>
    /\ processedChartData = <<>>
    /\ loadingStudents = FALSE
    /\ loadingAttendance = FALSE
    /\ error = Null
    /\ selectedBarDate = Null
    /\ selectedStudentId = ""
    /\ studentsFetch = "ok"
    /\ attendanceFetch = "ok"
    /\ effectPending = TRUE
    /\ presentStudentsOnSelectedDate = <<>>
    /\ studentSpecificAttendanceData = <<>>

SpecPct == InitPct /\ [][ProcessEffect]_vars

\* ----------------------------------------- the drill-down views, input by input

\* The selections the two memoized views can be asked about.
DateSelections == Dates \cup {Null}
StudentSelections == {""} \cup {NumberToString(id) : id \in StudentIds}

\* Any roster and any logs, loaded and rendered, with nothing selected yet.
InitResolver ==
    /\ allStudents \in Rosters
    /\ rawAttendance \in LogSequences
    /\ selectedBarDate = Null
    /\ selectedStudentId = ""
    /\ processedChartData =
          IF Len(allStudents) > 0 /\ Len(rawAttendance) > 0
          THEN ChartData(allStudents, rawAttendance) ELSE <<>>
    /\ loadingStudents = FALSE
    /\ loadingAttendance = FALSE
    /\ error = Null
    /\ studentsFetch = "ok"
    /\ attendanceFetch = "ok"
    /\ effectPending = FALSE
    /\ presentStudentsOnSelectedDate =
          PresentStudents(selectedBarDate, rawAttendance, allStudents)
    /\ studentSpecificAttendanceData =
          StudentAttendance(selectedStudentId, rawAttendance)

\* The selection changes and the views are recomputed by the next render.
Reselect(date, studentId) ==
    /\ selectedBarDate' = date
    /\ selectedStudentId' = studentId
    /\ UNCHANGED <<stores, processedChartData, fetches, effectPending>>
    /\ Render

NextResolver ==
    \E date \in DateSelections, studentId \in StudentSelections :
        Reselect(date, studentId)

SpecResolver == InitResolver /\ [][NextResolver]_vars

\* ------------------------------------------------------------------- claims

\* P / R * 100 rounded half-up to one decimal place, in tenths:
\* floor(1000 * P / R + 1/2).
HalfUpTenths(p, r) == (2000 * p + r) \div (2 * r)

\* C1: for a roster of size R > 0 and a log entry with P present ids,
\* 0 <= P <= R, the entry's aggregate has the percentage P / R * 100 rounded
\* half-up to one decimal place, and it lies in [0, 100].
C1_PercentageRoundedHalfUp ==
    \A i \in 1..Len(processedChartData) :
        LET p == Len(rawAttendance[i].present)
            r == Len(allStudents)
            pct == processedChartData[i].attendancePercentage
        IN  (r > 0 /\ p <= r) => (pct = HalfUpTenths(p, r) /\ pct \in 0..1000)

\* C2: in every reachable state every aggregate held as chart data has a
\* percentage in [0, 100], whatever the present lists hold (ids that are not
\* on the roster, repeated ids).
C2_PercentageInRange ==
    \A i \in 1..Len(processedChartData) :
        processedChartData[i].attendancePercentage \in 0..1000

\* C3: once the aggregation has run on a non-empty roster and non-empty logs,
\* there is exactly one aggregate per log entry, in the logs' order (the
\* fullDate sequence is the logs' date sequence), and each displayDate is the
\* fullDate without its first 5 characters.
C3_OrderPreserved ==
    (Len(allStudents) > 0 /\ Len(rawAttendance) > 0 /\ ~effectPending) =>
        /\ Len(processedChartData) = Len(rawAttendance)
        /\ \A i \in 1..Len(processedChartData) :
              /\ processedChartData[i].originalDate = rawAttendance[i].date
              /\ SubSeq(processedChartData[i].originalDate, 1, 5)
                    \o processedChartData[i].date
                 = processedChartData[i].originalDate
              /\ Len(processedChartData[i].date)
                 = Len(processedChartData[i].originalDate) - 5

\* C3's case: two aggregates, computed from logs delivered latest date first.
C3_Witness ==
    /\ Len(processedChartData) = 2
    /\ rawAttendance[1].date = "2025-05-02"
    /\ rawAttendance[2].date = "2025-05-01"
    /\ processedChartData[1].date = "05-02"

\* C4: the chart data is non-empty only if both the roster and the logs are
\* non-empty, and a run of the processing effect with an empty roster or empty
\* logs leaves the chart data unchanged (nothing is computed for a total of 0).
C4_NoAggregateUntilBoth ==
    /\ [](Len(processedChartData) > 0 =>
            (Len(allStudents) > 0 /\ Len(rawAttendance) > 0))
    /\ [][(effectPending /\ ~effectPending'
            /\ (Len(allStudents) = 0 \/ Len(rawAttendance) = 0))
          => processedChartData' = processedChartData]_vars

\* C4's case: the effect has run with the logs delivered and the roster not.
C4_Witness ==
    /\ ~effectPending
    /\ attendanceFetch = "ok"
    /\ Len(rawAttendance) > 0
    /\ studentsFetch = "pending"
    /\ Len(allStudents) = 0
    /\ processedChartData = <<>>

\* The label of an id that no roster student has.
FallbackLabel(id) == CASE id = 1 -> "ID: 1" [] id = 12 -> "ID: 12"

\* C5: with a selected date that has a log entry (the one find returns, the
\* first with that date) and a non-empty roster, the day view has one row per
\* element of the entry's present list, in order: the name of the roster
\* student with that id, or "ID: <id>" when there is none.
C5_RowPerPresentId ==
    (selectedBarDate # Null /\ Len(allStudents) > 0
        /\ \E i \in 1..Len(rawAttendance) : rawAttendance[i].date = selectedBarDate)
    => LET i == CHOOSE i \in 1..Len(rawAttendance) :
                   /\ rawAttendance[i].date = selectedBarDate
                   /\ \A j \in 1..(i - 1) : rawAttendance[j].date # selectedBarDate
           ids == rawAttendance[i].present
           rows == presentStudentsOnSelectedDate
           NamesOf(id) == {allStudents[n].name :
                              n \in {m \in 1..Len(allStudents) : allStudents[m].id = id}}
       IN  /\ Len(rows) = Len(ids)
           /\ \A k \in 1..Len(ids) :
                 IF NamesOf(ids[k]) # {} THEN rows[k] \in NamesOf(ids[k])
                 ELSE rows[k] = FallbackLabel(ids[k])

\* C5's case: the selected day lists an unknown id before a known one.
C5_Witness ==
    /\ selectedBarDate # Null
    /\ presentStudentsOnSelectedDate = <<"ID: 12", "Ann">>

\* C6: the day view is empty whenever no date is selected, or no log entry has
\* the selected date, or the roster is empty.
C6_EmptyDayView ==
    (\/ selectedBarDate = Null
     \/ ~\E i \in 1..Len(rawAttendance) : rawAttendance[i].date = selectedBarDate
     \/ Len(allStudents) = 0)
    => presentStudentsOnSelectedDate = <<>>

\* C6's case: a date is selected, its entry lists present ids, the roster is
\* empty, and the view is empty.
C6_Witness ==
    /\ selectedBarDate # Null
    /\ \E i \in 1..Len(rawAttendance) :
          rawAttendance[i].date = selectedBarDate /\ Len(rawAttendance[i].present) > 0
    /\ Len(allStudents) = 0
    /\ presentStudentsOnSelectedDate = <<>>

\* The decimal form of a student id, as the <select> option carries it.
OptionValue(id) == CASE id = 1 -> "1" [] id = 12 -> "12"

\* The record the student view owes to one log entry.
ExpectedRecord(log, id) ==
    [date |-> SubSeq(log.date, 6, 10),
     status |-> IF id \in {log.present[k] : k \in 1..Len(log.present)}
                THEN "Present" ELSE "Absent"]

\* C7: with a selected student and non-empty logs the student view has exactly
\* one record per log entry (it is a rearrangement of them), the entry's MM-DD
\* date with "Present" iff the student's id is in the entry's present list;
\* with no student selected or empty logs it is empty.
C7_RecordPerLogEntry ==
    IF selectedStudentId = "" \/ Len(rawAttendance) = 0
    THEN studentSpecificAttendanceData = <<>>
    ELSE LET id == CHOOSE id \in StudentIds : OptionValue(id) = selectedStudentId
             n == Len(rawAttendance)
         IN  /\ Len(studentSpecificAttendanceData) = n
             /\ \E f \in [1..n -> 1..n] :
                   /\ \A a, b \in 1..n : f[a] = f[b] => a = b
                   /\ \A k \in 1..n :
                         studentSpecificAttendanceData[k]
                            = ExpectedRecord(rawAttendance[f[k]], id)

\* C7's case: student 12 is selected, present on one of two days.
C7_Witness ==
    /\ selectedStudentId = "12"
    /\ Len(studentSpecificAttendanceData) = 2
    /\ studentSpecificAttendanceData[1].status = "Absent"
    /\ studentSpecificAttendanceData[2].status = "Present"

\* The UTF-16 code unit of a character of a "MM-DD" string.
CodeUnit(c) == IF c = "-" THEN 45 ELSE 48 + DigitValue(c)

\* a <= b under string comparison, for strings of equal length.
StringLeq(a, b) ==
    \/ a = b
    \/ \E i \in 1..Len(a) :
          /\ \A j \in 1..(i - 1) : CharAt(a, j) = CharAt(b, j)
          /\ CodeUnit(CharAt(a, i)) < CodeUnit(CharAt(b, i))

\* C8: the student view is sorted ascending by its MM-DD date under string
\* comparison, whatever the order of the logs.
C8_SortedByDisplayDate ==
    \A k \in 1..(Len(studentSpecificAttendanceData) - 1) :
        StringLeq(studentSpecificAttendanceData[k].date,
                  studentSpecificAttendanceData[k + 1].date)

\* C8's case: the logs came latest date first and the view lists them by date.
C8_Witness ==
    /\ selectedStudentId # ""
    /\ Len(rawAttendance) = 2
    /\ rawAttendance[1].date = "2025-05-02"
    /\ rawAttendance[2].date = "2025-05-01"
    /\ studentSpecificAttendanceData[1].date = "05-01"
    /\ studentSpecificAttendanceData[2].date = "05-02"

\* C9: a bar click leaves selectedStudentId unchanged and a student choice
\* (the empty choice included) leaves selectedBarDate unchanged.
C9_SelectionAxesIndependent ==
    [][/\ \A activePayload \in ClickPayloads, index \in 0..MaxLogs :
             HandleBarClick(activePayload, index)
                => selectedStudentId' = selectedStudentId
       /\ \A value \in StudentOptions :
             SelectStudent(value) => selectedBarDate' = selectedBarDate]_vars

\* C9's case: a date and a student are selected at the same time.
C9_Witness ==
    /\ selectedBarDate = "2025-05-01"
    /\ selectedStudentId = "12"

\* C10: a bar click for the date that is already selected leaves the selection
\* as it is: selectedBarDate stays that date.
C10_ReselectIdempotent ==
    [][\A activePayload \in ClickPayloads, index \in 0..MaxLogs :
          (/\ HandleBarClick(activePayload, index)
           /\ selectedBarDate # Null
           /\ ClickedDate(activePayload, index) = selectedBarDate)
          => (selectedBarDate' = selectedBarDate
                /\ selectedStudentId' = selectedStudentId)]_vars

\* C10's case: a date is selected and its bar can be clicked again.
C10_Witness ==
    /\ ChartShown
    /\ ~effectPending
    /\ selectedBarDate # Null
    /\ \E activePayload \in ClickPayloads :
          ClickedDate(activePayload, MaxLogs) = selectedBarDate

\* A fetch has failed.
AFetchFailed == studentsFetch = "failed" \/ attendanceFetch = "failed"

\* C11: once either fetch has failed the error is set and stays set: in that
\* state and every later one neither the chart nor a drill-down section is
\* rendered, also when the other fetch succeeded and filled its store.
C11_FailureIsSticky ==
    /\ [](AFetchFailed => (error # Null /\ ~ChartShown /\ ~DrillDownsShown))
    /\ [][AFetchFailed => (AFetchFailed' /\ error' # Null)]_vars

\* C11's case: the roster fetch failed, the logs arrived afterwards and the
\* effect has run on them.
C11_Witness ==
    /\ studentsFetch = "failed"
    /\ attendanceFetch = "ok"
    /\ Len(rawAttendance) > 0
    /\ ~effectPending
    /\ View = "error"

\* C12: when both fetches succeeded and the roster or the logs are empty, the
\* page is shown with the "no data" text: not the chart, not the error text.
C12_NoDataAffordance ==
    (/\ studentsFetch = "ok"
     /\ attendanceFetch = "ok"
     /\ (Len(allStudents) = 0 \/ Len(rawAttendance) = 0))
    => (NoDataShown /\ ~ChartShown /\ View # "error")

\* C12's case: the logs arrived non-empty, the roster arrived empty, and the
\* effect has run.
C12_Witness ==
    /\ studentsFetch = "ok"
    /\ attendanceFetch = "ok"
    /\ Len(allStudents) = 0
    /\ Len(rawAttendance) > 0
    /\ ~effectPending
    /\ NoDataShown

\* Row is what the day view owes to a present id: the name of the roster
\* student with that id, or the fallback label when there is none.
ResolvesId(row, id) ==
    LET names == {allStudents[n].name :
                     n \in {m \in 1..Len(allStudents) : allStudents[m].id = id}}
    IN  IF names # {} THEN row \in names ELSE row = FallbackLabel(id)

\* C13: after bar i of the chart is activated (with its point as the payload,
\* or with no payload and its index), selectedBarDate is aggregate i's
\* originalDate and the day view has one row per element of aggregate i's
\* presentStudentIds, row k resolving element k; for every log sequence,
\* repeated dates included.
C13_ActivationMatchesDrillDown ==
    [][\A i \in 1..Len(processedChartData) :
          (\/ HandleBarClick(<<processedChartData[i]>>, i - 1)
           \/ HandleBarClick(<<>>, i - 1))
          => LET ids == processedChartData[i].presentStudentIds
                 rows == presentStudentsOnSelectedDate'
             IN  /\ selectedBarDate' = processedChartData[i].originalDate
                 /\ Len(rows) = Len(ids)
                 /\ \A k \in 1..Len(ids) : ResolvesId(rows[k], ids[k])]_vars

\* C14: once both fetches have completed and the effect has run, the stores,
\* the chart data and the error are the ones the order roster-then-logs gives
\* for the same two outcomes, whichever fetch completed first.
C14_FetchOrderConfluence ==
    (studentsFetch # "pending" /\ attendanceFetch # "pending" /\ ~effectPending)
    => /\ (studentsFetch = "failed" => allStudents = <<>>)
       /\ (attendanceFetch = "failed" => rawAttendance = <<>>)
       /\ processedChartData =
             IF Len(allStudents) > 0 /\ Len(rawAttendance) > 0
             THEN ChartData(allStudents, rawAttendance) ELSE <<>>
       /\ error = IF attendanceFetch = "failed" THEN AttendanceFetchError
                  ELSE IF studentsFetch = "failed" THEN StudentsFetchError
                  ELSE Null

\* C15: the error text does not tell which fetch failed: whenever the error
\* view is shown, its message is the message of the roster's catch block and
\* of the logs' catch block alike.
C15_FailureMessageUniform ==
    View = "error" =>
        \A message \in {StudentsFetchError, AttendanceFetchError} : error = message

\* C16: a fetch completing (with a body or with a failure, the store replaced
\* or not) and a run of the processing effect leave selectedBarDate and
\* selectedStudentId as they are; the selection changes only in a bar click or
\* a student choice.
C16_SelectionChangedOnlyByUser ==
    [][/\ (StudentsFetchCompletes \/ AttendanceFetchCompletes \/ ProcessEffect)
             => selection' = selection
       /\ selection' # selection
             => \/ \E activePayload \in ClickPayloads, index \in 0..MaxLogs :
                      HandleBarClick(activePayload, index)
                \/ \E value \in StudentOptions : SelectStudent(value)]_vars

\* C16's case: both stores were replaced, the effect computed the chart, and
\* nothing is selected.
C16_Witness ==
    /\ studentsFetch = "ok"
    /\ attendanceFetch = "ok"
    /\ ~effectPending
    /\ ChartShown
    /\ selection = <<Null, "">>

\* Both fetches delivered non-empty collections.
BothDelivered ==
    /\ studentsFetch = "ok"
    /\ attendanceFetch = "ok"
    /\ Len(allStudents) > 0
    /\ Len(rawAttendance) > 0

\* C17: whenever the effect scheduled by a store change has run, the chart
\* data is empty or is the aggregation of the current roster and the current
\* logs; and when both fetches deliver non-empty collections the chart data
\* eventually is that aggregation.
C17_ChartDataNeverStale ==
    /\ [](~effectPending =>
            \/ processedChartData = <<>>
            \/ processedChartData = ChartData(allStudents, rawAttendance))
    /\ (BothDelivered ~>
            (~effectPending
                /\ processedChartData = ChartData(allStudents, rawAttendance)))

\* C17's case: the logs arrived first, the roster second, and the chart holds
\* the aggregation of both.
C17_Witness ==
    /\ BothDelivered
    /\ ~effectPending
    /\ Len(allStudents) = 2
    /\ Len(processedChartData) = 2
    /\ processedChartData = ChartData(allStudents, rawAttendance)

\* C18: selectedBarDate is null or the originalDate of a point of the chart
\* data (and so the date of a log entry), and a click with no active payload
\* and an index past the chart data leaves selectedBarDate unchanged.
C18_SelectedDateIsChartDate ==
    /\ [](selectedBarDate # Null =>
            /\ \E i \in 1..Len(processedChartData) :
                  processedChartData[i].originalDate = selectedBarDate
            /\ \E j \in 1..Len(rawAttendance) :
                  rawAttendance[j].date = selectedBarDate)
    /\ [][\A index \in 0..MaxLogs :
             (HandleBarClick(<<>>, index) /\ index >= Len(processedChartData))
                => selectedBarDate' = selectedBarDate]_vars

\* C18's case: a date is selected and the chart has a single bar, so a click
\* with index 1 hits no bar.
C18_Witness ==
    /\ ChartShown
    /\ ~effectPending
    /\ Len(processedChartData) = 1
    /\ selectedBarDate = processedChartData[1].originalDate

\* C19: while a fetch is in flight the loading text is shown, also when the
\* other fetch has failed; the error text, the chart and the drill-down
\* sections are shown only when both fetches have completed; and the loading
\* text is eventually left.
C19_LoadingUntilBothComplete ==
    /\ []((studentsFetch = "pending" \/ attendanceFetch = "pending")
            => View = "loading")
    /\ []((View = "error" \/ ChartShown \/ DrillDownsShown)
            => (studentsFetch # "pending" /\ attendanceFetch # "pending"))
    /\ <>(View # "loading")

\* C19's case: the roster fetch has failed, the logs fetch is in flight, and
\* the loading text is shown.
C19_Witness ==
    /\ studentsFetch = "failed"
    /\ error # Null
    /\ attendanceFetch = "pending"
    /\ View = "loading"

====
